---- MODULE Spec2Model ----
(***************************************************************************)
(* Model of the Dhall extension for Zed: the dispatcher of dhall.rs and    *)
(* the binary resolver of language_server.rs.  Strings are TLA+ strings,   *)
(* an Option<T> is a sequence of length at most one (None == <<>>), and a  *)
(* Result is a record [ok, val].  The working directory of the extension   *)
(* is a function from the names of its entries to the regular files found  *)
(* below each entry, named by their paths relative to the entry.           *)
(***************************************************************************)
EXTENDS Integers, Sequences, FiniteSets, TLC

VARIABLES
    platform,         \* <<Os, Architecture>> reported by zed::current_platform()
    user_path,        \* Option<String>: what worktree.which(binary_name) answers
    language_server,  \* DhallExtension.language_server: Option<DhallLanguageServer>
    workdir,          \* the working directory on disk
    keep_release,     \* whether the record of a request keeps the release it fetched
    full_releases,    \* whether upstream releases carry several tools
    last              \* the request that has just returned; NoCall once anything
                      \* else has happened since, and before the first request.
                      \* It keeps the extension's resolver slot as the request
                      \* found it (before) and the entries it removed (removed).

vars == <<platform, user_path, language_server, workdir, keep_release,
          full_releases, last>>

-----------------------------------------------------------------------------
(* Bounds of the model.                                                    *)

\* most tools a release carries
MaxTools == 2

\* number of distinct release versions the upstream project publishes
MaxVersions == 2

-----------------------------------------------------------------------------
(* Option and Result.                                                      *)

None == <<>>
Some(x) == <<x>>
Ok(v) == [ok |-> TRUE, val |-> v]
Err(e) == [ok |-> FALSE, val |-> e]

-----------------------------------------------------------------------------
(* Strings.                                                                *)

starts_with(s, p) == Len(s) >= Len(p) /\ SubSeq(s, 1, Len(p)) = p

ends_with(s, p) ==
    Len(s) >= Len(p) /\ SubSeq(s, Len(s) - Len(p) + 1, Len(s)) = p

\* some position of s where the substring w begins
Contains(s, w) ==
    \E i \in 1..(Len(s) - Len(w) + 1) : SubSeq(s, i, i + Len(w) - 1) = w

-----------------------------------------------------------------------------
(* The host's enumerations.                                                *)

Os == {"Mac", "Linux", "Windows"}
Architecture == {"Aarch64", "X86", "X8664"}

LANGUAGE_SERVER_ID == "dhall"

\* identities the host may ask for
LanguageServerIds == {"dhall", "nix"}

\* where the user's own installation may be found by worktree.which
UserPaths == {"/usr/local/bin/dhall-lsp-server"}

-----------------------------------------------------------------------------
(* The upstream project: releases and their assets.                        *)

VersionDigits == <<"1", "2", "3", "4", "5", "6", "7", "8", "9">>
Versions == {"1.42." \o VersionDigits[i] : i \in 1..MaxVersions}

\* the tools a release may carry, each built for every target of the release
AssetStems == {"dhall-lsp-server-1.1.3", "dhall-lsp-server-1.1.4", "dhall-1.42.2"}
TarTargets ==
    <<"aarch64-darwin.tar.bz2", "x86_64-darwin.tar.bz2", "x86_64-linux.tar.bz2">>
ZipTargets == <<"x86_64-windows.zip">>
\* a release is built for the tar targets or for the zip target
Targets == {TarTargets, ZipTargets}

Asset(version, name) ==
    [name |-> name,
     download_url |-> "https://github.com/dhall-lang/dhall-haskell/releases/download/"
                      \o version \o "/" \o name]

\* orders of at most MaxTools distinct tools
StemLists ==
    UNION {{l \in [1..n -> AssetStems] : \A i, j \in 1..n : l[i] = l[j] => i = j}
           : n \in 0..MaxTools}

\* the assets of a release: tool by tool, and for each tool target by target
AssetList(version, stems, targets) ==
    [k \in 1..(Len(stems) * Len(targets)) |->
        Asset(version, stems[((k - 1) \div Len(targets)) + 1] \o "-"
                       \o targets[((k - 1) % Len(targets)) + 1])]

Releases ==
    {[version |-> v, assets |-> AssetList(v, l, t)]
     : v \in Versions, l \in StemLists, t \in Targets}

\* how the files of an archive are laid out
ArchiveLayouts == {"bin", "versioned"}

-----------------------------------------------------------------------------
(* The working directory.                                                  *)

EmptyDir == [e \in {} |-> {}]

\* fs::metadata(path).is_ok_and(|stat| stat.is_file())
is_file(wd, path) ==
    \E e \in DOMAIN wd : \E f \in wd[e] : path = e \o "/" \o f

\* position of the first '/' of a relative path
FirstSlash(p) ==
    CHOOSE i \in 1..Len(p) :
        /\ SubSeq(p, i, i) = "/"
        /\ \A j \in 1..(i - 1) : SubSeq(p, j, j) # "/"

\* the directory `entry` exists afterwards
MakeDir(wd, entry) ==
    [e \in DOMAIN wd \cup {entry} |-> IF e \in DOMAIN wd THEN wd[e] ELSE {}]

\* the regular file `rel` is written below the entry `entry`
AddFile(wd, entry, rel) ==
    [MakeDir(wd, entry) EXCEPT ![entry] = @ \cup {rel}]

\* the files of the archive, relative to the archive's root
ArchiveFiles(layout, version_dir, binary_name) ==
    CASE layout = "bin" -> {"bin/" \o binary_name}
      [] layout = "versioned" -> {version_dir \o "/bin/" \o binary_name}
      [] OTHER -> {}

\* the archive is unpacked in the directory `into` ("." is the working directory)
Unpack(wd, into, paths) ==
    IF paths = {} THEN wd
    ELSE LET p == CHOOSE q \in paths : TRUE
             k == FirstSlash(p)
         IN IF into = "."
            THEN AddFile(wd, SubSeq(p, 1, k - 1), SubSeq(p, k + 1, Len(p)))
            ELSE AddFile(wd, into, p)

\* a successful zed::download_file(url, version_dir, download_type)
download_file(wd, asset, version_dir, download_type, layout, binary_name) ==
    IF download_type = "Zip"
    THEN Unpack(MakeDir(wd, version_dir), version_dir,
                ArchiveFiles(layout, version_dir, binary_name))
    ELSE AddFile(wd, version_dir, asset.name)

\* a successful `tar -xf <download_path>`, run in the working directory
tar_xf(wd, version_dir, layout, binary_name) ==
    Unpack(wd, ".", ArchiveFiles(layout, version_dir, binary_name))

\* fs::remove_dir_all for every entry of `gone`
remove_dir_all(wd, gone) == [e \in DOMAIN wd \ gone |-> wd[e]]

-----------------------------------------------------------------------------
(* language_server.rs: the pure steps of language_server_binary_path.      *)

\* the Windows name used on every OS
binary_nameExeEverywhere(os) == "dhall-lsp-server.exe"

binary_name(os) ==
    IF os = "Windows" THEN "dhall-lsp-server.exe" ELSE "dhall-lsp-server"

\* a slip in the table: the Intel Mac is given the Linux archive and the
\* Windows zip is fetched as if it were a tar archive
PlatformAssetSlip(os, arch) ==
    CASE os = "Mac" /\ arch = "Aarch64" ->
            Some([file_suffix |-> "aarch64-darwin.tar.bz2", download_type |-> "Uncompressed"])
      [] os = "Mac" /\ arch = "X8664" ->
            Some([file_suffix |-> "x86_64-linux.tar.bz2", download_type |-> "Uncompressed"])
      [] os = "Linux" /\ arch = "X8664" ->
            Some([file_suffix |-> "x86_64-linux.tar.bz2", download_type |-> "Uncompressed"])
      [] os = "Windows" /\ arch = "X8664" ->
            Some([file_suffix |-> "x86_64-windows.zip", download_type |-> "Uncompressed"])
      [] OTHER -> None

\* a table where the Windows zip is left to the external tar as well
PlatformAssetAllTar(os, arch) ==
    CASE os = "Mac" /\ arch = "Aarch64" ->
            Some([file_suffix |-> "aarch64-darwin.tar.bz2", download_type |-> "Uncompressed"])
      [] os = "Mac" /\ arch = "X8664" ->
            Some([file_suffix |-> "x86_64-darwin.tar.bz2", download_type |-> "Uncompressed"])
      [] os = "Linux" /\ arch = "X8664" ->
            Some([file_suffix |-> "x86_64-linux.tar.bz2", download_type |-> "Uncompressed"])
      [] os = "Windows" /\ arch = "X8664" ->
            Some([file_suffix |-> "x86_64-windows.zip", download_type |-> "Uncompressed"])
      [] OTHER -> None

\* match (platform, arch): Some([file_suffix, download_type]) or None
PlatformAsset(os, arch) ==
    CASE os = "Mac" /\ arch = "Aarch64" ->
            Some([file_suffix |-> "aarch64-darwin.tar.bz2", download_type |-> "Uncompressed"])
      [] os = "Mac" /\ arch = "X8664" ->
            Some([file_suffix |-> "x86_64-darwin.tar.bz2", download_type |-> "Uncompressed"])
      [] os = "Linux" /\ arch = "X8664" ->
            Some([file_suffix |-> "x86_64-linux.tar.bz2", download_type |-> "Uncompressed"])
      [] os = "Windows" /\ arch = "X8664" ->
            Some([file_suffix |-> "x86_64-windows.zip", download_type |-> "Zip"])
      [] OTHER -> None

UnsupportedError(os, arch) ==
    "unsupported platform/arch combination: " \o os \o "/" \o arch

\* a search that forgets the tool prefix
AssetMatchesSuffixOnly(asset, file_suffix) == ends_with(asset.name, file_suffix)

AssetMatches(asset, file_suffix) ==
    starts_with(asset.name, "dhall-lsp-server") /\ ends_with(asset.name, file_suffix)

\* release.assets.iter().find(..)
find_asset(assets, file_suffix) ==
    LET hits == {i \in 1..Len(assets) : AssetMatches(assets[i], file_suffix)}
    IN IF hits = {} THEN None
       ELSE Some(assets[CHOOSE i \in hits : \A j \in hits : i <= j])

NoAssetError(file_suffix) ==
    "no asset found matching dhall-lsp-server-*-" \o file_suffix

version_dir(release) == "dhall-haskell-" \o release.version

binary_path(release, os) == version_dir(release) \o "/bin/" \o binary_name(os)

\* the archive named without the directory it was downloaded into
download_pathNoDir(release, asset) == asset.name

download_path(release, asset) == version_dir(release) \o "/" \o asset.name

\* a cache that is trusted without looking at the disk
CacheHitUnchecked(cached_binary_path, wd) == cached_binary_path # None

\* the cached path is trusted: it is set and is a regular file
CacheHit(cached_binary_path, wd) ==
    cached_binary_path # None /\ is_file(wd, cached_binary_path[1])

\* the fast paths in the other order: the cache before the PATH
FastPathCacheFirst(which, cached_binary_path, wd) ==
    IF cached_binary_path # None /\ is_file(wd, cached_binary_path[1]) THEN "cache"
    ELSE IF which # None THEN "which"
    ELSE "provision"

\* lines 58-66: which of the two fast paths returns, if any
FastPath(which, cached_binary_path, wd) ==
    IF which # None THEN "which"
    ELSE IF CacheHit(cached_binary_path, wd) THEN "cache"
    ELSE "provision"

\* a provisioning pass that never looks for the binary it may already have
NeedsDownloadAlways(wd, path) == TRUE

\* line 113: the expected binary is not there yet
NeedsDownload(wd, path) == ~is_file(wd, path)

\* a sweep that spares nothing, the new version directory included
SweepTargetsAll(entries, keep) == entries

\* line 140: the entries the cleanup sweep removes
SweepTargets(entries, keep) == entries \ {keep}

-----------------------------------------------------------------------------
(* The record of a request: what it was asked, where it returned, what it  *)
(* returned and the calls it made on the host and the operating system.    *)

Event(op, args) == [op |-> op, args |-> args]

NoDetails == [release |-> None, asset |-> None, unremovable |-> {}]

NoCall ==
    [id |-> "", site |-> "none", result |-> Err(""), events |-> <<>>,
     release |-> None, unremovable |-> {}, after_ok |-> FALSE,
     disk_changed |-> FALSE, cache_changed |-> FALSE,
     before |-> None, removed |-> {}]

\* fs::metadata(path) as the request saw it: the path and what was found
Probe(wd, path) ==
    Event("metadata", <<path, IF is_file(wd, path) THEN "file" ELSE "missing">>)

\* the request before this one was for the same server and succeeded, and
\* nothing outside the extension has happened since
AfterOk(id) == last.site # "none" /\ last.id = id /\ last.result.ok

\* the Option<String> slot of the resolver, None while no resolver exists
CacheSlot(ls) == IF ls = None THEN None ELSE ls[1].cached_binary_path

\* the request returns `result` from `site`, leaving `cache` in the resolver's slot
Return(id, site, result, cache, wd, events, d) ==
    /\ language_server' = Some([cached_binary_path |-> cache])
    /\ workdir' = wd
    /\ last' = [id |-> id, site |-> site, result |-> result, events |-> events,
                release |-> IF keep_release THEN d.release ELSE None,
                unremovable |-> d.unremovable, after_ok |-> AfterOk(id),
                disk_changed |-> (wd # workdir),
                cache_changed |-> (cache # CacheSlot(language_server)),
                before |-> language_server,
                removed |-> DOMAIN workdir \ DOMAIN wd]
    /\ UNCHANGED <<platform, user_path, keep_release, full_releases>>

-----------------------------------------------------------------------------
(* language_server.rs, lines 136-147: the cleanup sweep and the cache      *)
(* write.  read_dir may fail as a whole, or at one entry after some of the *)
(* other entries have been removed; a removal that fails is ignored.       *)

\* a sweep that gives up with an error when an entry cannot be removed
SweepFatalRemoval(id, self, release, asset, wd, events) ==
    LET keep == version_dir(release)
        path == binary_path(release, platform[1])
        ev == Append(events, Event("read_dir", <<".">>))
        d == [release |-> Some(release), asset |-> Some(asset), unremovable |-> {}]
    IN \/ Return(id, "read_dir", Err("failed to list working directory: denied"),
                 self.cached_binary_path, wd, ev, d)
       \/ \E removed \in SUBSET SweepTargets(DOMAIN wd, keep) :
            Return(id, "entry", Err("failed to load directory entry: denied"),
                   self.cached_binary_path, remove_dir_all(wd, removed), ev, d)
       \/ \E failing \in SUBSET SweepTargets(DOMAIN wd, keep) :
            IF failing = {}
            THEN Return(id, "installed", Ok(path), Some(path),
                        remove_dir_all(wd, SweepTargets(DOMAIN wd, keep)),
                        Append(ev, Event("cache_write", <<path>>)), d)
            ELSE Return(id, "entry", Err("failed to remove directory: denied"),
                        self.cached_binary_path,
                        remove_dir_all(wd, SweepTargets(DOMAIN wd, keep) \ failing),
                        ev, [d EXCEPT !.unremovable = failing])

Sweep(id, self, release, asset, wd, events) ==
    LET keep == version_dir(release)
        path == binary_path(release, platform[1])
        ev == Append(events, Event("read_dir", <<".">>))
        d == [release |-> Some(release), asset |-> Some(asset), unremovable |-> {}]
    IN \/ Return(id, "read_dir", Err("failed to list working directory: denied"),
                 self.cached_binary_path, wd, ev, d)
       \/ \E removed \in SUBSET SweepTargets(DOMAIN wd, keep) :
            Return(id, "entry", Err("failed to load directory entry: denied"),
                   self.cached_binary_path, remove_dir_all(wd, removed), ev, d)
       \/ \E failing \in SUBSET SweepTargets(DOMAIN wd, keep) :
            Return(id, "installed", Ok(path), Some(path),
                   remove_dir_all(wd, SweepTargets(DOMAIN wd, keep) \ failing),
                   Append(ev, Event("cache_write", <<path>>)),
                   [d EXCEPT !.unremovable = failing])

(* lines 113-134: download and, for the tar kinds, decompression.          *)
Install(id, self, release, asset, download_type, events) ==
    LET dir == version_dir(release)
        name == binary_name(platform[1])
        archive == download_path(release, asset)
        ev == events \o <<Event("set_status", <<"Downloading">>),
                          Event("download_file", <<asset.download_url, dir, download_type>>)>>
        d == [release |-> Some(release), asset |-> Some(asset), unremovable |-> {}]
    IN \/ Return(id, "download", Err("failed to download file: connection reset"),
                 self.cached_binary_path, workdir, ev, d)
       \/ \E layout \in ArchiveLayouts :
            LET wd1 == download_file(workdir, asset, dir, download_type, layout, name)
                ev2 == Append(ev, Event("tar", <<"-xf", archive>>))
            IN IF download_type = "Uncompressed"
               THEN \/ Return(id, "tar_launch",
                              Err("failed to decompress " \o archive \o ": NotFound"),
                              self.cached_binary_path, wd1, ev2, d)
                    \/ Return(id, "tar_status",
                              Err("failed to decompress " \o archive
                                  \o ": status ExitStatus(2)"),
                              self.cached_binary_path, wd1, ev2, d)
                    \/ Sweep(id, self, release, asset,
                             tar_xf(wd1, dir, layout, name), ev2)
               ELSE Sweep(id, self, release, asset, wd1, ev)

(* lines 80-112 and 146-147: platform match, asset search, existing file.  *)
Select(id, self, release, events) ==
    LET os == platform[1]
        arch == platform[2]
        pa == PlatformAsset(os, arch)
        d == [NoDetails EXCEPT !.release = Some(release)]
    IN IF pa = None
       THEN Return(id, "unsupported", Err(UnsupportedError(os, arch)),
                   self.cached_binary_path, workdir, events, d)
       ELSE LET found == find_asset(release.assets, pa[1].file_suffix)
            IN IF found = None
               THEN Return(id, "no_asset", Err(NoAssetError(pa[1].file_suffix)),
                           self.cached_binary_path, workdir, events, d)
               ELSE LET path == binary_path(release, os)
                        ev == Append(events, Probe(workdir, path))
                    IN IF NeedsDownload(workdir, path)
                       THEN Install(id, self, release, found[1],
                                    pa[1].download_type, ev)
                       ELSE Return(id, "existing", Ok(path), Some(path), workdir,
                                   Append(ev, Event("cache_write", <<path>>)),
                                   [d EXCEPT !.asset = found])

(* What latest_github_release may answer.  For the workflow a release is   *)
(* as good as the release holding only its first matching asset, so unless *)
(* the lists of assets themselves are looked at, releases of at most one   *)
(* tool are drawn.                                                         *)
Upstream ==
    IF full_releases THEN Releases
    ELSE {r \in Releases : Len(r.assets) <= Len(TarTargets)}

\* a failed release lookup forgets the cached path
ProvisionDropsCache(id, self, events) ==
    LET ev == events \o <<Event("set_status", <<"CheckingForUpdate">>),
                          Event("latest_github_release", <<"dhall-lang/dhall-haskell">>)>>
    IN \/ Return(id, "fetch", Err("failed to fetch latest release"),
                 None, workdir, ev, NoDetails)
       \/ \E release \in Upstream : Select(id, self, release, ev)

\* the release is looked up first and the host is told afterwards
ProvisionLookupFirst(id, self, events) ==
    LET ev == events \o <<Event("latest_github_release", <<"dhall-lang/dhall-haskell">>),
                          Event("set_status", <<"CheckingForUpdate">>)>>
    IN \/ Return(id, "fetch", Err("failed to fetch latest release"),
                 self.cached_binary_path, workdir, ev, NoDetails)
       \/ \E release \in Upstream : Select(id, self, release, ev)

(* lines 68-78: the status notification and the release lookup.            *)
Provision(id, self, events) ==
    LET ev == events \o <<Event("set_status", <<"CheckingForUpdate">>),
                          Event("latest_github_release", <<"dhall-lang/dhall-haskell">>)>>
    IN \/ Return(id, "fetch", Err("failed to fetch latest release"),
                 self.cached_binary_path, workdir, ev, NoDetails)
       \/ \E release \in Upstream : Select(id, self, release, ev)

\* a resolver that also remembers the path found on the PATH
language_server_binary_pathCachesWhich(id, self) ==
    LET name == binary_name(platform[1])
        ev == <<Event("current_platform", <<>>), Event("which", <<name>>)>>
        cached == self.cached_binary_path
        ev2 == IF cached = None THEN ev ELSE Append(ev, Probe(workdir, cached[1]))
        path == FastPath(user_path, cached, workdir)
    IN IF path = "which"
       THEN Return(id, "which", Ok(user_path[1]), user_path, workdir, ev, NoDetails)
       ELSE IF path = "cache"
            THEN Return(id, "cache", Ok(cached[1]), cached, workdir, ev2, NoDetails)
            ELSE Provision(id, self, ev2)

(* lines 46-66: the two fast paths.                                        *)
language_server_binary_path(id, self) ==
    LET name == binary_name(platform[1])
        ev == <<Event("current_platform", <<>>), Event("which", <<name>>)>>
        cached == self.cached_binary_path
        ev2 == IF cached = None THEN ev ELSE Append(ev, Probe(workdir, cached[1]))
        path == FastPath(user_path, cached, workdir)
    IN IF path = "which"
       THEN Return(id, "which", Ok(user_path[1]), cached, workdir, ev, NoDetails)
       ELSE IF path = "cache"
            THEN Return(id, "cache", Ok(cached[1]), cached, workdir, ev2, NoDetails)
            ELSE Provision(id, self, ev2)

-----------------------------------------------------------------------------
(* dhall.rs: the extension and its dispatcher.                             *)

\* DhallLanguageServer::new
NewLanguageServer == [cached_binary_path |-> None]

\* a new resolver for every request, whatever the slot holds
insert_new(ls) == NewLanguageServer

\* Option::get_or_insert_with(DhallLanguageServer::new)
get_or_insert_with(ls) == IF ls = None THEN NewLanguageServer ELSE ls[1]

\* a dispatcher that hands every identity to the Dhall resolver
LanguageServerCommandAnyId ==
    \E id \in LanguageServerIds :
        language_server_binary_path(id, get_or_insert_with(language_server))

\* DhallExtension::language_server_command
LanguageServerCommand ==
    \E id \in LanguageServerIds :
        IF id = LANGUAGE_SERVER_ID
        THEN language_server_binary_path(id, get_or_insert_with(language_server))
        ELSE /\ last' = [NoCall EXCEPT !.id = id, !.site = "unknown",
                                       !.result = Err("unknown language server: " \o id),
                                       !.after_ok = AfterOk(id),
                                       !.before = language_server]
             /\ UNCHANGED <<platform, user_path, language_server, workdir, keep_release, full_releases>>

-----------------------------------------------------------------------------
(* What happens outside the extension.                                     *)

\* somebody deletes a provisioned binary
ExternalDelete ==
    \E e \in DOMAIN workdir : \E f \in workdir[e] :
        /\ ends_with(f, binary_name(platform[1]))
        /\ workdir' = [workdir EXCEPT ![e] = @ \ {f}]
        /\ last' = NoCall
        /\ UNCHANGED <<platform, user_path, language_server, keep_release, full_releases>>

\* the user installs the server on the PATH, or removes it from there
UserInstall ==
    /\ user_path = None
    /\ \E p \in UserPaths : user_path' = Some(p)
    /\ last' = NoCall
    /\ UNCHANGED <<platform, language_server, workdir, keep_release, full_releases>>

UserUninstall ==
    /\ user_path # None
    /\ user_path' = None
    /\ last' = NoCall
    /\ UNCHANGED <<platform, language_server, workdir, keep_release, full_releases>>

\* the host process ends and a new one starts: DhallExtension::new
Restart ==
    /\ language_server # None
    /\ language_server' = None
    /\ last' = NoCall
    /\ UNCHANGED <<platform, user_path, workdir, keep_release, full_releases>>

-----------------------------------------------------------------------------

Init ==
    /\ platform \in Os \X Architecture
    /\ user_path = None
    /\ language_server = None
    /\ workdir = EmptyDir
    /\ keep_release = FALSE
    /\ full_releases = FALSE
    /\ last = NoCall

(* A request reads the record of the request before it only to note that   *)
(* that request succeeded (after_ok).  After a failed request the same     *)
(* disk, cache and PATH are met again with an empty record once the user   *)
(* has touched the PATH twice, so requests are taken from there.           *)
Request ==
    /\ last.site = "none" \/ last.result.ok
    /\ LanguageServerCommand

Next ==
    \/ Request
    \/ ExternalDelete
    \/ UserInstall
    \/ UserUninstall
    \/ Restart

Spec == Init /\ [][Next]_vars

(* A request does not depend on the record of the request before it, so    *)
(* what one request does can be studied from the states where that record  *)
(* is empty: every state of disk, cache, PATH and resolver is among them.  *)
FreshRequest == last = NoCall /\ LanguageServerCommand

(* The extension and its environment, one request at a time.               *)
NextFresh ==
    \/ FreshRequest
    \/ ExternalDelete
    \/ UserInstall
    \/ UserUninstall
    \/ Restart

SpecFresh == Init /\ [][NextFresh]_vars

(* The same extension in one host process, with the fetched release kept   *)
(* in the record of each request.                                          *)

InitAssets ==
    /\ platform \in Os \X Architecture
    /\ user_path = None
    /\ language_server = None
    /\ workdir = EmptyDir
    /\ keep_release = TRUE
    /\ full_releases = TRUE
    /\ last = NoCall

NextAssets ==
    \/ FreshRequest
    \/ UserInstall
    \/ UserUninstall

SpecAssets == InitAssets /\ [][NextAssets]_vars

(* The first request of a host process, with releases of several tools,    *)
(* on a working directory that is empty or holds what an earlier host      *)
(* process installed from a release older than the ones now published.     *)
EarlierInstall(os) ==
    AddFile(EmptyDir, "dhall-haskell-1.41.2", "bin/" \o binary_name(os))

InitFirst ==
    /\ platform \in Os \X Architecture
    /\ user_path = None
    /\ language_server = None
    /\ workdir \in {EmptyDir, EarlierInstall(platform[1])}
    /\ keep_release = TRUE
    /\ full_releases = TRUE
    /\ last = NoCall

SpecFirst == InitFirst /\ [][FreshRequest]_vars

(* One host process with releases of at most one tool, the fetched release *)
(* kept in the record of each request.                                     *)
InitRelease ==
    /\ platform \in Os \X Architecture
    /\ user_path = None
    /\ language_server = None
    /\ workdir = EmptyDir
    /\ keep_release = TRUE
    /\ full_releases = FALSE
    /\ last = NoCall

SpecRelease == InitRelease /\ [][NextAssets]_vars

-----------------------------------------------------------------------------
(* Vocabulary of the properties.                                           *)

\* number of calls of `op` among the events of a request
Count(events, op) == Cardinality({i \in DOMAIN events : events[i].op = op})

\* the request notified the host of `status`
Notified(events, status) ==
    \E i \in DOMAIN events : events[i] = Event("set_status", <<status>>)

\* a request for the Dhall server has just returned
Resolved(l) == l.site # "none" /\ l.id = "dhall"

\* ... and it went past both fast paths
Provisioning(l) == Resolved(l) /\ Notified(l.events, "CheckingForUpdate")

\* position of the release lookup among the events, 0 when there was none
LookupAt(events) ==
    IF Count(events, "latest_github_release") = 0 THEN 0
    ELSE CHOOSE i \in DOMAIN events : events[i].op = "latest_github_release"

\* before provisioning, the request found the cached path not to be a file
StaleCache(l) ==
    \E i \in DOMAIN l.events :
        /\ l.events[i].op = "metadata"
        /\ l.events[i].args[2] = "missing"
        /\ LookupAt(l.events) = 0 \/ i < LookupAt(l.events)

\* in the provisioning pass, the request found `path` to be a regular file
FoundBinary(l, path) ==
    \E i \in DOMAIN l.events :
        /\ l.events[i] = Event("metadata", <<path, "file">>)
        /\ i > LookupAt(l.events)

\* the documented platform table: <<suffix, decompression kind>>, or <<>>
Documented(os, arch) ==
    CASE <<os, arch>> = <<"Mac", "Aarch64">> -> <<"aarch64-darwin.tar.bz2", "external">>
      [] <<os, arch>> = <<"Mac", "X8664">> -> <<"x86_64-darwin.tar.bz2", "external">>
      [] <<os, arch>> = <<"Linux", "X8664">> -> <<"x86_64-linux.tar.bz2", "external">>
      [] <<os, arch>> = <<"Windows", "X8664">> -> <<"x86_64-windows.zip", "native">>
      [] OTHER -> <<>>

SupportedPlatform == Documented(platform[1], platform[2]) # <<>>

\* the first component of a relative path
EntryOf(path) == SubSeq(path, 1, FirstSlash(path) - 1)

\* <version-dir>/bin/<binary-name> of a release, as documented
ExpectedBinary(release) ==
    "dhall-haskell-" \o release.version \o "/bin/"
    \o (IF platform[1] = "Windows" THEN "dhall-lsp-server.exe" ELSE "dhall-lsp-server")

\* positions of the assets that carry the tool prefix and the platform suffix
Candidates(release) ==
    {i \in 1..Len(release.assets) :
        /\ starts_with(release.assets[i].name, "dhall-lsp-server")
        /\ ends_with(release.assets[i].name, Documented(platform[1], platform[2])[1])}

-----------------------------------------------------------------------------
\* C1: whenever the PATH lookup answers a path, the request returns exactly
\* that path, makes no host call beyond the platform and PATH probes (no
\* status notification, release lookup, download or external process),
\* leaves the working directory as it was and leaves the cache slot as it
\* was, whatever the cache slot and the managed directories hold.
C1_PathLookupWins ==
    (Resolved(last) /\ user_path # None) =>
        /\ last.result = Ok(user_path[1])
        /\ \A i \in DOMAIN last.events :
              last.events[i].op \in {"current_platform", "which"}
        /\ ~last.disk_changed
        /\ ~last.cache_changed

\* a PATH hit while the cache slot holds a managed binary that exists
C1_Witness ==
    /\ last.site = "which"
    /\ CacheSlot(language_server) # None
    /\ is_file(workdir, CacheSlot(language_server)[1])

\* C2: when the PATH lookup fails and the cache slot holds a path that is
\* not a regular file, the request does not return through the cache: it
\* notifies "checking for update" once, looks the release up once, and a
\* path it returns is one this request wrote to the cache slot.
C2_StaleCacheReprovisions ==
    (Resolved(last) /\ user_path = None /\ StaleCache(last)) =>
        /\ last.site # "cache"
        /\ Notified(last.events, "CheckingForUpdate")
        /\ Count(last.events, "latest_github_release") = 1
        /\ last.result.ok =>
              \E i \in DOMAIN last.events :
                  last.events[i] = Event("cache_write", <<last.result.val>>)

\* a request that found the cached path gone and provisioned again with success
C2_Witness ==
    /\ Resolved(last)
    /\ StaleCache(last)
    /\ last.result.ok

\* C3: every path returned from the cache or from the provisioning pass is a
\* regular file on disk when the request returns.
C3_ReturnedPathExists ==
    (Resolved(last) /\ last.result.ok /\ last.site # "which")
        => is_file(workdir, last.result.val)

\* C4: a request that follows a successful request for the same server, with
\* nothing changed outside in between, looks the release up at most once
\* and downloads nothing.
C4_SecondCallDownloadsNothing ==
    (Resolved(last) /\ last.after_ok) =>
        /\ Count(last.events, "latest_github_release") <= 1
        /\ Count(last.events, "download_file") = 0

\* C5: in the provisioning pass, when the binary of the fetched release is
\* already a regular file, the request downloads nothing, starts no
\* decompression, does not notify "downloading", leaves the working
\* directory as it was, writes that path to the cache slot and returns it.
C5_ExistingBinaryShortcut ==
    (/\ Provisioning(last)
     /\ last.release # None
     /\ SupportedPlatform
     /\ Candidates(last.release[1]) # {}
     /\ FoundBinary(last, ExpectedBinary(last.release[1]))) =>
        /\ Count(last.events, "download_file") = 0
        /\ Count(last.events, "tar") = 0
        /\ ~Notified(last.events, "Downloading")
        /\ ~last.disk_changed
        /\ last.result = Ok(ExpectedBinary(last.release[1]))
        /\ CacheSlot(language_server) = Some(ExpectedBinary(last.release[1]))

\* the shortcut taken while the working directory holds other entries too
C5_Witness ==
    /\ last.site = "existing"
    /\ last.release # None
    /\ FoundBinary(last, ExpectedBinary(last.release[1]))
    /\ Cardinality(DOMAIN workdir) > 1

\* C6, as claimed: after every successful provisioning pass the working
\* directory holds exactly one entry, the version directory just resolved.
C6_ExactlyOneVersionDir ==
    (Provisioning(last) /\ last.result.ok) =>
        DOMAIN workdir = {EntryOf(last.result.val)}

\* C6, amended: after a provisioning pass that downloaded and succeeded, the
\* working directory holds the version directory just resolved and, besides
\* it, exactly the entries whose removal failed; a pass that took the
\* existing-binary shortcut leaves the working directory as it was.
C6_SweptUnlessUnremovable ==
    (Provisioning(last) /\ last.result.ok) =>
        IF Count(last.events, "download_file") = 0
        THEN ~last.disk_changed
        ELSE /\ EntryOf(last.result.val) \notin last.unremovable
             /\ DOMAIN workdir = {EntryOf(last.result.val)} \cup last.unremovable

\* a successful download whose sweep failed on an entry, which stays beside
\* the version directory
C6_Witness ==
    /\ last.site = "installed"
    /\ last.unremovable # {}
    /\ Cardinality(DOMAIN workdir) = 2

\* C7: on an unsupported platform a request that reaches the provisioning
\* pass fails without any release lookup and without any download.
C7_UnsupportedBeforeNetwork ==
    (Provisioning(last) /\ ~SupportedPlatform) =>
        /\ ~last.result.ok
        /\ Count(last.events, "latest_github_release") = 0
        /\ Count(last.events, "download_file") = 0

\* C8: on an unsupported platform every failure of the provisioning pass is
\* the platform-support error, naming the OS and the architecture.
C8_UnsupportedErrorAlways ==
    (Provisioning(last) /\ ~SupportedPlatform /\ ~last.result.ok) =>
        /\ Contains(last.result.val, "unsupported platform/arch combination")
        /\ Contains(last.result.val, platform[1])
        /\ Contains(last.result.val, platform[2])

\* C9: the platform decides suffix and decompression as documented: on a
\* supported pair every download asks for an asset ending in the documented
\* suffix, with the archive kind of the table (tar archives are fetched as
\* they are and unpacked by the external tar, the zip is unpacked by the
\* host and tar never runs), and a missing asset is reported with that
\* suffix; on every other pair a request that got a release fails with the
\* platform error and downloads nothing.
C9_PlatformTable ==
    LET doc == Documented(platform[1], platform[2])
        ev == last.events
        got_release == Provisioning(last) /\ last.site # "fetch"
    IN IF doc = <<>>
       THEN got_release =>
              /\ last.result = Err("unsupported platform/arch combination: "
                                   \o platform[1] \o "/" \o platform[2])
              /\ Count(ev, "download_file") = 0
       ELSE got_release =>
              /\ last.site # "unsupported"
              /\ \A i \in DOMAIN ev :
                    ev[i].op = "download_file" =>
                       /\ ends_with(ev[i].args[1], doc[1])
                       /\ ev[i].args[3] = (IF doc[2] = "external"
                                           THEN "Uncompressed" ELSE "Zip")
              /\ doc[2] = "native" => Count(ev, "tar") = 0
              /\ (doc[2] = "external" /\ Count(ev, "download_file") = 1
                    /\ last.site # "download") => Count(ev, "tar") = 1
              /\ last.site = "no_asset" =>
                    last.result = Err("no asset found matching dhall-lsp-server-*-"
                                      \o doc[1])

\* a download on Mac/Aarch64 that went through the external tar
C9_Witness ==
    /\ platform = <<"Mac", "Aarch64">>
    /\ last.site = "installed"
    /\ Count(last.events, "tar") = 1

\* C10: on a supported platform the asset downloaded is the first of the
\* release, in release order, that starts with the tool prefix and ends
\* with the platform suffix; when no asset does both, the request fails with
\* an error holding the suffix, downloads and decompresses nothing, and
\* leaves the working directory and the cache slot as they were.
C10_FirstMatchingAsset ==
    (Provisioning(last) /\ last.release # None /\ SupportedPlatform) =>
        LET release == last.release[1]
            hits == Candidates(release)
            ev == last.events
        IN IF hits = {}
           THEN /\ ~last.result.ok
                /\ Contains(last.result.val, Documented(platform[1], platform[2])[1])
                /\ Count(ev, "download_file") = 0
                /\ Count(ev, "tar") = 0
                /\ ~last.disk_changed
                /\ ~last.cache_changed
           ELSE \A i \in DOMAIN ev :
                   ev[i].op = "download_file" =>
                      \E k \in hits :
                         /\ \A j \in hits : k <= j
                         /\ ev[i].args[1] = release.assets[k].download_url

\* a download from a release where an asset with the suffix but without the
\* prefix comes before the asset that was taken
C10_Witness ==
    /\ last.site = "installed"
    /\ last.release # None
    /\ SupportedPlatform
    /\ \E k \in Candidates(last.release[1]) :
          \E j \in 1..(k - 1) :
             ends_with(last.release[1].assets[j].name,
                       Documented(platform[1], platform[2])[1])

\* the archive path of a release as documented: <version-dir>/<asset-name>,
\* for the first asset that carries the tool prefix and the platform suffix
ArchivePath(release) ==
    LET hits == Candidates(release)
        k == CHOOSE i \in hits : \A j \in hits : i <= j
    IN "dhall-haskell-" \o release.version \o "/" \o release.assets[k].name

\* the request ended at the external decompression
TarFailed(l) == Resolved(l) /\ l.site \in {"tar_launch", "tar_status"}

\* C11: when the external decompression of a tar asset cannot be launched
\* or exits with a non-zero status, the request returns an error holding
\* the archive path <version-dir>/<asset-name> and the exit status or the
\* launch cause, runs no sweep (the directory is not listed and no entry is
\* removed) and leaves the cache slot as it was.
C11_DecompressionFailureIsFatal ==
    (TarFailed(last) /\ last.release # None) =>
        /\ ~last.result.ok
        /\ Contains(last.result.val, ArchivePath(last.release[1]))
        /\ IF last.site = "tar_status"
           THEN Contains(last.result.val, "status ExitStatus")
           ELSE Contains(last.result.val, "NotFound")
        /\ Count(last.events, "tar") = 1
        /\ Count(last.events, "read_dir") = 0
        /\ last.removed = {}
        /\ Count(last.events, "cache_write") = 0
        /\ ~last.cache_changed

\* tar exits with a non-zero status while an earlier version directory is
\* on disk, and that directory is still there
C11_Witness ==
    /\ last.site = "tar_status"
    /\ last.release # None
    /\ \E e \in DOMAIN workdir :
          /\ starts_with(e, "dhall-haskell-")
          /\ e # "dhall-haskell-" \o last.release[1].version

\* C12: for every release version v and platform, the version directory is
\* "dhall-haskell-" followed by v and the path provisioning returns is
\* <version-dir>/bin/<binary-name>, the binary name being
\* "dhall-lsp-server.exe" on Windows and "dhall-lsp-server" elsewhere;
\* version 1.42.2 on (Linux, X8664) gives
\* "dhall-haskell-1.42.2/bin/dhall-lsp-server".
C12_VersionDirAndBinaryPath ==
    (Provisioning(last) /\ last.release # None) =>
        LET v == last.release[1].version
            dir == "dhall-haskell-" \o v
            name == IF platform[1] = "Windows" THEN "dhall-lsp-server.exe"
                    ELSE "dhall-lsp-server"
            ev == last.events
        IN /\ last.result.ok => last.result.val = dir \o "/bin/" \o name
           /\ \A i \in DOMAIN ev : ev[i].op = "download_file" => ev[i].args[2] = dir
           /\ \A i \in DOMAIN ev :
                 (ev[i].op = "metadata" /\ i > LookupAt(ev)) =>
                     ev[i].args[1] = dir \o "/bin/" \o name
           /\ (v = "1.42.2" /\ platform = <<"Linux", "X8664">> /\ last.result.ok) =>
                 last.result.val = "dhall-haskell-1.42.2/bin/dhall-lsp-server"

\* release 1.42.2 provisioned on (Linux, X8664)
C12_Witness ==
    /\ Provisioning(last)
    /\ platform = <<"Linux", "X8664">>
    /\ last.release # None
    /\ last.release[1].version = "1.42.2"
    /\ last.result.ok
    /\ Count(last.events, "download_file") = 1

\* C13: a request whose identity is not "dhall" is rejected with an error
\* naming that identity, without the resolver: no call is made on the host
\* or the operating system, the extension's resolver slot is what it was (no
\* resolver is created) and neither the disk nor the cache slot changes.
C13_UnknownIdentityRejected ==
    (last.site # "none" /\ last.id # "dhall") =>
        /\ last.result = Err("unknown language server: " \o last.id)
        /\ last.events = <<>>
        /\ language_server = last.before
        /\ ~last.disk_changed
        /\ last.removed = {}
        /\ ~last.cache_changed

\* an unknown identity asked before any resolver exists: there is still none
C13_Witness ==
    /\ last.id = "nix"
    /\ ~last.result.ok
    /\ language_server = None

\* position of the only call of `op` among the events, 0 when there is none
OpAt(events, op) ==
    IF Count(events, op) = 0 THEN 0
    ELSE CHOOSE i \in DOMAIN events : events[i].op = op

\* position of the notification of `status`, 0 when there is none
StatusAt(events, status) ==
    IF ~Notified(events, status) THEN 0
    ELSE CHOOSE i \in DOMAIN events : events[i] = Event("set_status", <<status>>)

\* the request met one of the fast paths: a PATH hit, or a cached path that
\* was probed first and found to be a regular file
FastReturn(l) ==
    \/ user_path # None
    \/ /\ Len(l.events) >= 3
       /\ l.events[3].op = "metadata"
       /\ l.events[3].args[2] = "file"

\* C14: within every request the events are ordered: "checking for update"
\* is notified before the release lookup; "downloading" is notified only
\* after a lookup that succeeded and an asset match, only when the expected
\* binary was found absent, and right before the download; the external
\* decompression follows a successful download; the sweep follows a
\* successful extraction; the cache write is the last event.  A request
\* that returns on a fast path notifies nothing.
C14_EventOrder ==
    Resolved(last) =>
        LET ev == last.events
            checking == StatusAt(ev, "CheckingForUpdate")
            lookup == OpAt(ev, "latest_github_release")
            downloading == StatusAt(ev, "Downloading")
            download == OpAt(ev, "download_file")
            tar == OpAt(ev, "tar")
            sweep == OpAt(ev, "read_dir")
            write == OpAt(ev, "cache_write")
        IN /\ lookup > 0 => (0 < checking /\ checking < lookup)
           /\ checking > 0 => lookup > 0
           /\ downloading > 0 =>
                 /\ lookup > 0 /\ lookup < downloading
                 /\ last.release # None
                 /\ SupportedPlatform
                 /\ Candidates(last.release[1]) # {}
                 /\ ev[downloading - 1] =
                       Event("metadata", <<ExpectedBinary(last.release[1]), "missing">>)
                 /\ download = downloading + 1
           /\ download > 0 => downloading > 0
           /\ tar > 0 => (download > 0 /\ download < tar /\ last.site # "download")
           /\ sweep > 0 =>
                 /\ download > 0 /\ download < sweep
                 /\ last.site # "download"
                 /\ ~TarFailed(last)
                 /\ Documented(platform[1], platform[2])[2] = "external" =>
                        (tar > 0 /\ tar < sweep)
           /\ write > 0 => write = Len(ev)
           /\ last.result.ok /\ ~FastReturn(last) => write = Len(ev)
           /\ FastReturn(last) => Count(ev, "set_status") = 0

\* a request that went the whole way: both notifications, lookup, download,
\* tar, sweep and cache write
C14_Witness ==
    /\ Resolved(last)
    /\ last.release # None
    /\ Notified(last.events, "Downloading")
    /\ Count(last.events, "tar") = 1
    /\ Count(last.events, "read_dir") = 1
    /\ Count(last.events, "cache_write") = 1

\* the request ended in the sweep: the listing or the load of an entry failed
SweepFailed(l) == Resolved(l) /\ l.site \in {"read_dir", "entry"}

\* C15: in the sweep, an entry that cannot be removed does not fail the
\* request: the path is still returned and cached and the entry stays on
\* disk.  A listing that fails, or an entry that cannot be loaded, makes the
\* request return an error with the cache slot as it was, although the new
\* version directory is already on disk.  The sweep never removes the entry
\* named after the current version directory.
C15_SweepFailures ==
    (Resolved(last) /\ last.release # None) =>
        LET dir == "dhall-haskell-" \o last.release[1].version
        IN /\ last.unremovable # {} =>
                 /\ last.result = Ok(ExpectedBinary(last.release[1]))
                 /\ CacheSlot(language_server) = Some(last.result.val)
                 /\ last.unremovable \subseteq DOMAIN workdir
           /\ SweepFailed(last) =>
                 /\ ~last.result.ok
                 /\ Contains(last.result.val,
                             IF last.site = "read_dir"
                             THEN "failed to list working directory"
                             ELSE "failed to load directory entry")
                 /\ ~last.cache_changed
                 /\ Count(last.events, "cache_write") = 0
                 /\ Count(last.events, "download_file") = 1
                 /\ dir \in DOMAIN workdir
           /\ Count(last.events, "read_dir") = 1 =>
                 /\ dir \in DOMAIN workdir
                 /\ dir \notin last.removed

\* the request succeeds after a sweep that removed one earlier entry and
\* failed to remove another, which stays beside the new version directory
C15_Witness ==
    /\ last.site = "installed"
    /\ last.release # None
    /\ last.unremovable # {}
    /\ last.result.ok
    /\ last.removed # {}

\* the request failed in discovery: past the fast paths, with an error, and
\* before any download (the lookup failed, the platform is not supported or
\* no asset matched)
DiscoveryFailed(l) ==
    /\ Provisioning(l)
    /\ ~l.result.ok
    /\ Count(l.events, "download_file") = 0

\* C16: a request that fails in discovery leaves the working directory and
\* the cache slot exactly as they were, and the resolver the next request
\* works with is the one this request started with, so that a later request
\* meets what it would have met without the failed one.
C16_DiscoveryFailureLeavesNoTrace ==
    DiscoveryFailed(last) =>
        /\ ~last.disk_changed
        /\ last.removed = {}
        /\ ~last.cache_changed
        /\ CacheSlot(language_server) = CacheSlot(last.before)
        /\ get_or_insert_with(language_server) = get_or_insert_with(last.before)
        /\ Count(last.events, "tar") = 0
        /\ Count(last.events, "read_dir") = 0
        /\ Count(last.events, "cache_write") = 0

\* the release lookup fails while the cache slot holds a path that is gone
\* and the working directory is not empty
C16_Witness ==
    /\ DiscoveryFailed(last)
    /\ Count(last.events, "latest_github_release") = 1
    /\ last.release = None
    /\ CacheSlot(language_server) # None
    /\ DOMAIN workdir # {}

\* C17: the cache slot changes only at the end of a provisioning pass that
\* succeeds, where it becomes the returned path; a PATH hit, a cache hit and
\* every error leave it as it was, a stale cached path included.
C17_CacheWrittenOnlyOnSuccess ==
    Resolved(last) =>
        /\ last.cache_changed =>
              /\ last.result.ok
              /\ Provisioning(last)
              /\ last.events[Len(last.events)] =
                    Event("cache_write", <<last.result.val>>)
        /\ (last.result.ok /\ Provisioning(last)) =>
              CacheSlot(language_server) = Some(last.result.val)
        /\ (~last.result.ok \/ FastReturn(last)) =>
              /\ ~last.cache_changed
              /\ CacheSlot(language_server) = CacheSlot(last.before)
              /\ Count(last.events, "cache_write") = 0

\* a request that found the cached path gone, failed after its download, and
\* left that path in the cache slot
C17_Witness ==
    /\ Resolved(last)
    /\ StaleCache(last)
    /\ ~last.result.ok
    /\ Count(last.events, "download_file") = 1
    /\ CacheSlot(language_server) # None

\* C18: every request ends with a path or an error after at most one
\* release lookup, at most one download and at most one external process;
\* nothing is tried again after a failure (a request that fails made its
\* failing call once and no call after it), and the external process runs
\* only for the tar assets, never for the Windows zip.
C18_AtMostOnceNoRetry ==
    Resolved(last) =>
        LET ev == last.events
        IN /\ last.result.ok \in BOOLEAN
           /\ Len(last.result.val) > 0
           /\ Count(ev, "latest_github_release") <= 1
           /\ Count(ev, "download_file") <= 1
           /\ Count(ev, "tar") <= 1
           /\ Count(ev, "read_dir") <= 1
           /\ Count(ev, "set_status") <= 2
           /\ Count(ev, "cache_write") <= 1
           /\ (~last.result.ok /\ last.release = None) =>
                 ev[Len(ev)].op = "latest_github_release"
           /\ (~last.result.ok /\ Count(ev, "download_file") = 1) =>
                 ev[Len(ev)].op \in {"download_file", "tar", "read_dir"}
           /\ \A i \in DOMAIN ev :
                 (ev[i].op = "download_file" /\ ev[i].args[3] = "Zip") =>
                     Count(ev, "tar") = 0
           /\ platform[1] = "Windows" => Count(ev, "tar") = 0
           /\ Count(ev, "tar") = 1 =>
                 ends_with(ev[OpAt(ev, "tar")].args[2], ".tar.bz2")

\* the Windows zip downloaded and installed without any external process
C18_Witness ==
    /\ Resolved(last)
    /\ platform = <<"Windows", "X8664">>
    /\ last.result.ok
    /\ Count(last.events, "download_file") = 1
    /\ Count(last.events, "tar") = 0

\* C19: the resolver is created by the first request for "dhall" and is
\* not replaced or reset afterwards: after such a request a resolver exists;
\* a request that found no resolver starts from an empty cache slot (it
\* probes no cached path); a request that found one reads the slot as the
\* request before left it (with the PATH lookup failing, its first probe is
\* of that path), and keeps the resolver unless it writes the slot itself.
C19_ResolverCreatedOnceAndKept ==
    /\ Resolved(last) => language_server # None
    /\ (Resolved(last) /\ user_path = None /\ CacheSlot(last.before) = None) =>
          /\ Len(last.events) >= 3
          /\ last.events[3] = Event("set_status", <<"CheckingForUpdate">>)
    /\ (Resolved(last) /\ user_path = None /\ CacheSlot(last.before) # None) =>
          /\ Len(last.events) >= 3
          /\ last.events[3].op = "metadata"
          /\ last.events[3].args[1] = CacheSlot(last.before)[1]
    /\ (Resolved(last) /\ last.before # None /\ ~last.cache_changed) =>
          language_server = last.before
    /\ (last.site # "none" /\ last.before # None) => language_server # None

\* a later request returns the path an earlier one wrote to the cache slot
C19_Witness ==
    /\ Resolved(last)
    /\ last.site = "cache"
    /\ last.before = language_server
    /\ last.result.val = CacheSlot(language_server)[1]
====
